---- MODULE Spec2Model ----
(***************************************************************************)
(* COVID-19 regional statistics tool: run.py (get_requests, main),         *)
(* src/data_functions.py (CovidData) and src/haversine.py (haversine).     *)
(*                                                                         *)
(* A Python dict is modelled as the sequence of its <<key, value>> pairs   *)
(* in insertion order (the order a for-loop over the dict visits).  A file *)
(* is the sequence of its lines, a line the sequence of its comma          *)
(* separated fields (what line.rstrip().split(',') returns); the blank     *)
(* line is <<"">>.  A float (degrees, miles) is an integer count of 1/100. *)
(***************************************************************************)
EXTENDS Integers, Sequences, FiniteSets, TLC

(***************************************************************************)
(* Python dict                                                             *)
(***************************************************************************)
Keys(d) == {d[i][1] : i \in DOMAIN d}

Has(d, k) == k \in Keys(d)

Get(d, k) == d[CHOOSE i \in DOMAIN d : d[i][1] = k][2]

\* d[k] = v : replaces the value in place, or appends a new key at the end
Put(d, k, v) ==
    IF Has(d, k)
    THEN [i \in DOMAIN d |-> IF d[i][1] = k THEN <<k, v>> ELSE d[i]]
    ELSE Append(d, <<k, v>>)

(***************************************************************************)
(* Fixed-point arithmetic standing for Python floats.  Degrees and miles   *)
(* count 1/100; an angle in radians, a sine or the haversine term a is an  *)
(* integer count of 1/Scale.  IEEE rounding is symmetric in the sign, so   *)
(* division truncates toward zero.  All products stay below 2^31 for       *)
(* |latitude| <= 90 and |longitude difference| <= 180.                     *)
(***************************************************************************)
Scale == 10000

Quot(a, b) == IF a >= 0 THEN a \div b ELSE -((-a) \div b)

\* math.pi, in 1/Scale
Pi == 31416

\* math.pi / 2, in 1/Scale
HalfPi == 15708

\* math.radians(x), x in 1/100 degree
radians(x) == Quot(x * Pi, 18000)

\* math.sin(x), |x| <= pi/2
sin(x) ==
    LET x2 == Quot(x * x, Scale)
        t3 == Quot(Quot(x2 * x, Scale), 6)
        t5 == Quot(Quot(t3 * x2, Scale), 20)
        t7 == Quot(Quot(t5 * x2, Scale), 42)
        t9 == Quot(Quot(t7 * x2, Scale), 72)
    IN  x - t3 + t5 - t7 + t9

\* math.cos(x), |x| <= pi/2
cos(x) ==
    LET x2 == Quot(x * x, Scale)
        t2 == Quot(x2, 2)
        t4 == Quot(Quot(t2 * x2, Scale), 12)
        t6 == Quot(Quot(t4 * x2, Scale), 30)
        t8 == Quot(Quot(t6 * x2, Scale), 56)
    IN  Scale - t2 + t4 - t6 + t8

RECURSIVE isqrtIn(_, _, _)
isqrtIn(n, lo, hi) ==
    IF lo >= hi THEN lo
    ELSE LET mid == (lo + hi + 1) \div 2
         IN  IF mid * mid <= n THEN isqrtIn(n, mid, hi)
                               ELSE isqrtIn(n, lo, mid - 1)

\* math.sqrt(a), 0 <= a <= 2
sqrt(a) == isqrtIn(a * Scale, 0, 2 * Scale)

\* arctangent of t, 0 <= t <= 1
atan(t) ==
    LET r  == Quot(t * Scale, Scale + sqrt(Scale + Quot(t * t, Scale)))
        r2 == Quot(r * r, Scale)
        t3 == Quot(r2 * r, Scale)
        t5 == Quot(t3 * r2, Scale)
        t7 == Quot(t5 * r2, Scale)
        t9 == Quot(t7 * r2, Scale)
    IN  2 * (r - Quot(t3, 3) + Quot(t5, 5) - Quot(t7, 7) + Quot(t9, 9))

\* math.atan2(y, x), y >= 0, x >= 0
atan2(y, x) ==
    IF y = 0 THEN 0
    ELSE IF y <= x THEN atan(Quot(y * Scale, x))
    ELSE HalfPi - atan(Quot(x * Scale, y))

\* radius = 6371 # km
EarthRadiusKm == 6371

\* 1.60934 [km/mi], times 100000
KmPerMile == 160934

(***************************************************************************)
(* haversine(origin, destination): points are <<lat, lon>> in 1/100        *)
(* degree, the result is in 1/100 mile.                                    *)
(***************************************************************************)
\* haversine with the cosine of the origin latitude taken twice
haversine_one_lat(origin, destination) ==
    LET lat1 == origin[1]
        lon1 == origin[2]
        lat2 == destination[1]
        lon2 == destination[2]
        dlat == radians(lat2 - lat1)
        dlon == radians(lon2 - lon1)
        sdlat == sin(Quot(dlat, 2))
        sdlon == sin(Quot(dlon, 2))
        a == Quot(sdlat * sdlat, Scale)
             + Quot(Quot(Quot(cos(radians(lat1)) * cos(radians(lat1)), Scale)
                         * sdlon, Scale) * sdlon, Scale)
        c == 2 * atan2(sqrt(a), sqrt(Scale - a))
        d == EarthRadiusKm * c
    IN  Quot(d, KmPerMile) * 1000 + Quot((d % KmPerMile) * 1000, KmPerMile)

haversine(origin, destination) ==
    LET lat1 == origin[1]
        lon1 == origin[2]
        lat2 == destination[1]
        lon2 == destination[2]
        dlat == radians(lat2 - lat1)
        dlon == radians(lon2 - lon1)
        sdlat == sin(Quot(dlat, 2))
        sdlon == sin(Quot(dlon, 2))
        a == Quot(sdlat * sdlat, Scale)
             + Quot(Quot(Quot(cos(radians(lat1)) * cos(radians(lat2)), Scale)
                         * sdlon, Scale) * sdlon, Scale)
        c == 2 * atan2(sqrt(a), sqrt(Scale - a))
        d == EarthRadiusKm * c
    IN  Quot(d, KmPerMile) * 1000 + Quot((d % KmPerMile) * 1000, KmPerMile)

(***************************************************************************)
(* Conversions of the text fields the sources hold.  Each is the table of  *)
(* the literals that occur in the modelled files; any other text is        *)
(* rejected the way Python rejects it.                                     *)
(***************************************************************************)
\* str.lower()
LowerTable ==
    << <<"Date", "date">>, <<"County", "county">>, <<"State", "state">>,
       <<"FIPS", "fips">> >>

lower(s) == IF Has(LowerTable, s) THEN Get(LowerTable, s) ELSE s

\* int(text): the literals int() accepts
IntLiterals ==
    << <<"0", 0>>, <<"1", 1>>, <<"01", 1>>, <<"2", 2>>, <<"02", 2>>,
       <<"3", 3>>, <<"4", 4>>, <<"04", 4>>, <<"5", 5>>, <<"7", 7>>,
       <<"9", 9>>, <<"10", 10>>, <<"12", 12>>, <<"13", 13>>, <<"50", 50>>,
       <<"100", 100>>, <<"200", 200>>, <<"300", 300>>, <<"2020", 2020>> >>

\* float(text), in 1/100: the literals float() accepts
FloatLiterals ==
    << <<"-5", -500>>, <<"0", 0>>, <<"300", 30000>>, <<"400", 40000>>,
       <<"1000", 100000>>, <<"1000.5", 100050>>, <<"2000", 200000>>,
       <<"33.0", 3300>>, <<"38.0", 3800>>, <<"43.0", 4300>>,
       <<"40.0", 4000>>, <<"-122.0", -12200>>, <<"-117.0", -11700>>,
       <<"-75.0", -7500>> >>

\* text.split('-')
SplitDashTable ==
    << <<"2020-04-01", <<"2020", "04", "01">> >>,
       <<"2020-4-1", <<"2020", "4", "1">> >>,
       <<"2020-04-02", <<"2020", "04", "02">> >>,
       <<"2020-13-01", <<"2020", "13", "01">> >> >>

SplitDash(s) == IF Has(SplitDashTable, s) THEN Get(SplitDashTable, s) ELSE <<s>>

\* year, month, day = text.split('-'); date(int(year), int(month), int(day))
\* A date is <<year, month, day>>; None is <<>>.
parse_date(text) ==
    LET parts == SplitDash(text)
    IN  IF Len(parts) # 3 THEN [err |-> "ValueError", date |-> <<>>]
        ELSE IF \E i \in 1..3 : ~Has(IntLiterals, parts[i])
        THEN [err |-> "ValueError", date |-> <<>>]
        ELSE LET y == Get(IntLiterals, parts[1])
                 m == Get(IntLiterals, parts[2])
                 d == Get(IntLiterals, parts[3])
             IN  IF m \in 1..12 /\ d \in 1..31
                 THEN [err |-> "", date |-> <<y, m, d>>]
                 ELSE [err |-> "ValueError", date |-> <<>>]

\* src/us_states.py: full state name -> two-letter abbreviation
us_state_abbrev ==
    << <<"California", "CA">>, <<"Nevada", "NV">>, <<"Oregon", "OR">> >>

(***************************************************************************)
(* run.py                                                                  *)
(***************************************************************************)
\* the largest radius get_requests accepts, in 1/100 mile
MaxRadius == 100000

RECURSIVE get_requests_loop(_, _, _)
get_requests_loop(file, i, requests) ==
    \* line = f.readline().rstrip(); while line:
    IF i > Len(file) \/ file[i] = <<"">>
    THEN [err |-> "", requests |-> requests]
    ELSE LET line == file[i]
         IN  IF Len(line) # 3
             THEN [err |-> "RuntimeError", requests |-> <<>>]
             ELSE IF ~Has(FloatLiterals, line[3])
             THEN [err |-> "RuntimeError", requests |-> <<>>]
             ELSE IF Get(FloatLiterals, line[3]) > MaxRadius
             THEN [err |-> "RuntimeError", requests |-> <<>>]
             ELSE get_requests_loop(file, i + 1,
                      Append(requests,
                             [state |-> line[2], county |-> line[1],
                              distance |-> Get(FloatLiterals, line[3])]))

\* get_requests(input_path): exists is whether the path exists, file its lines
get_requests(exists, file) ==
    IF ~exists THEN [err |-> "RuntimeError", requests |-> <<>>]
    ELSE get_requests_loop(file, 2, <<>>)

(***************************************************************************)
(* CovidData                                                               *)
(***************************************************************************)
counties_data_types == <<"date", "county", "state", "fips">>

num_fixed_types == Len(counties_data_types)

\* len(geo_data_types)
num_geo_types == 12

\* validate_header(header, data_names): data_types is the split header
validate_header(data_types) ==
    LET bad == {i \in 1..num_fixed_types :
                   \/ i > Len(data_types)
                   \/ lower(data_types[i]) # counties_data_types[i]}
        first == CHOOSE i \in bad : \A j \in bad : i <= j
    IN  IF bad = {}
        THEN [err |-> "",
              names |-> SubSeq(data_types, num_fixed_types + 1, Len(data_types))]
        ELSE IF first > Len(data_types)
        THEN [err |-> "IndexError", names |-> <<>>]
        ELSE [err |-> "ValueError", names |-> <<>>]

\* for i, stat in enumerate(self.stat_names): ... record[stat] = value
\* stops at the first field int() rejects, keeping what was stored so far
RECURSIVE store_stats(_, _, _, _)
store_stats(record, names, line_data, i) ==
    IF i > Len(names) THEN [err |-> "", record |-> record]
    ELSE LET value == line_data[i + num_fixed_types]
         IN  IF value = ""
             THEN store_stats(Put(record, names[i], 0), names, line_data, i + 1)
             ELSE IF ~Has(IntLiterals, value)
             THEN [err |-> "ValueError", record |-> record]
             ELSE store_stats(Put(record, names[i], Get(IntLiterals, value)),
                              names, line_data, i + 1)

\* store_counties_row that leaves the fips of a county already loaded
store_counties_row_keep(covid, names, line_data) ==
    LET county == line_data[2]
        fips   == line_data[4]
    IN  IF ~Has(us_state_abbrev, line_data[3])
        THEN [err |-> "KeyError", covid |-> covid, collision |-> FALSE]
        ELSE
        LET state    == Get(us_state_abbrev, line_data[3])
            withSt   == IF Has(covid, state) THEN covid ELSE Put(covid, state, <<>>)
            counties == Get(withSt, state)
            seen     == Has(counties, county)
            rec0     == IF seen THEN Get(counties, county)
                                ELSE << <<"fips", fips>> >>
            stored   == store_stats(rec0, names, line_data, 1)
        IN  [err |-> stored.err,
             covid |-> Put(withSt, state, Put(counties, county, stored.record)),
             collision |-> seen]

\* One row of load_counties_data that passed the field count and the date
\* filter, lines 131-163: the table it leaves and the error it raises.
store_counties_row(covid, names, line_data) ==
    LET county == line_data[2]
        fips   == line_data[4]
    IN  IF ~Has(us_state_abbrev, line_data[3])
        THEN [err |-> "KeyError", covid |-> covid, collision |-> FALSE]
        ELSE
        LET state    == Get(us_state_abbrev, line_data[3])
            withSt   == IF Has(covid, state) THEN covid ELSE Put(covid, state, <<>>)
            counties == Get(withSt, state)
            seen     == Has(counties, county)
            rec0     == IF seen THEN Put(Get(counties, county), "fips", fips)
                                ELSE << <<"fips", fips>> >>
            stored   == store_stats(rec0, names, line_data, 1)
        IN  [err |-> stored.err,
             covid |-> Put(withSt, state, Put(counties, county, stored.record)),
             collision |-> seen]

\* store_geocodes_row with the largest-city test written population >= largest
store_geocodes_row_ge(geo, line_data) ==
    IF \/ ~Has(FloatLiterals, line_data[4])
       \/ ~Has(FloatLiterals, line_data[5])
       \/ ~Has(IntLiterals, line_data[11])
    THEN [err |-> "ValueError", geo |-> geo]
    ELSE
    LET state      == line_data[3]
        county     == line_data[6]
        lat        == Get(FloatLiterals, line_data[4])
        lon        == Get(FloatLiterals, line_data[5])
        population == Get(IntLiterals, line_data[11])
        withSt     == IF Has(geo, state) THEN geo ELSE Put(geo, state, <<>>)
        counties   == Get(withSt, state)
        old        == Get(counties, county)
        rec        == IF ~Has(counties, county)
                      THEN [lat |-> lat, lon |-> lon, population |-> population,
                            largest_city |-> population]
                      ELSE IF population >= old.largest_city
                      THEN [lat |-> lat, lon |-> lon,
                            population |-> old.population + population,
                            largest_city |-> population]
                      ELSE [old EXCEPT !.population = @ + population]
    IN  [err |-> "", geo |-> Put(withSt, state, Put(counties, county, rec))]

\* One well-formed row of load_geocodes_data, lines 208-239
store_geocodes_row(geo, line_data) ==
    IF \/ ~Has(FloatLiterals, line_data[4])
       \/ ~Has(FloatLiterals, line_data[5])
       \/ ~Has(IntLiterals, line_data[11])
    THEN [err |-> "ValueError", geo |-> geo]
    ELSE
    LET state      == line_data[3]
        county     == line_data[6]
        lat        == Get(FloatLiterals, line_data[4])
        lon        == Get(FloatLiterals, line_data[5])
        population == Get(IntLiterals, line_data[11])
        withSt     == IF Has(geo, state) THEN geo ELSE Put(geo, state, <<>>)
        counties   == Get(withSt, state)
        old        == Get(counties, county)
        rec        == IF ~Has(counties, county)
                      THEN [lat |-> lat, lon |-> lon, population |-> population,
                            largest_city |-> population]
                      ELSE IF population > old.largest_city
                      THEN [lat |-> lat, lon |-> lon,
                            population |-> old.population + population,
                            largest_city |-> population]
                      ELSE [old EXCEPT !.population = @ + population]
    IN  [err |-> "", geo |-> Put(withSt, state, Put(counties, county, rec))]

\* the (state, county) keys of a two-level dict, in iteration order
RECURSIVE Flatten(_, _)
Flatten(d, i) ==
    IF i > Len(d) THEN <<>>
    ELSE [j \in 1..Len(d[i][2]) |-> <<d[i][1], d[i][2][j][1]>>] \o Flatten(d, i + 1)

\* compute_stats_loop with the radius test written dist < distance
RECURSIVE compute_stats_loop_strict(_, _, _, _, _, _, _)
compute_stats_loop_strict(covid, geo, keys, i, origin, request, acc) ==
    IF i > Len(keys) THEN acc
    ELSE
    LET new_state  == keys[i][1]
        new_county == keys[i][2]
        grec       == Get(Get(geo, new_state), new_county)
        dist       == haversine(origin, <<grec.lat, grec.lon>>)
        counted    == [acc EXCEPT !.ndist = @ + 1]
        crec       == Get(Get(covid, new_state), new_county)
    IN  IF new_county = ""
        THEN compute_stats_loop_strict(covid, geo, keys, i + 1, origin, request, acc)
        ELSE IF ~(dist < request.distance)
        THEN compute_stats_loop_strict(covid, geo, keys, i + 1, origin, request, counted)
        ELSE IF ~Has(covid, new_state)
        THEN [counted EXCEPT !.err = "KeyError"]
        ELSE IF ~Has(Get(covid, new_state), new_county)
        THEN compute_stats_loop_strict(covid, geo, keys, i + 1, origin, request, counted)
        ELSE IF ~Has(crec, request.stat)
        THEN [counted EXCEPT !.err = "KeyError"]
        ELSE compute_stats_loop_strict(covid, geo, keys, i + 1, origin, request,
               [counted EXCEPT
                  !.result.stat_total = @ + Get(crec, request.stat),
                  !.result.population = @ + grec.population,
                  !.result.counties = Append(@, <<new_county, new_state>>),
                  !.result.fips = Append(@, Get(crec, "fips"))])

\* the loop of compute_stats, lines 302-330, over the keys from position i
RECURSIVE compute_stats_loop(_, _, _, _, _, _, _)
compute_stats_loop(covid, geo, keys, i, origin, request, acc) ==
    IF i > Len(keys) THEN acc
    ELSE
    LET new_state  == keys[i][1]
        new_county == keys[i][2]
        grec       == Get(Get(geo, new_state), new_county)
        dist       == haversine(origin, <<grec.lat, grec.lon>>)
        counted    == [acc EXCEPT !.ndist = @ + 1]
    IN  IF new_county = ""
        THEN compute_stats_loop(covid, geo, keys, i + 1, origin, request, acc)
        ELSE IF ~(dist <= request.distance)
        THEN compute_stats_loop(covid, geo, keys, i + 1, origin, request, counted)
        ELSE IF ~Has(covid, new_state)
        THEN [counted EXCEPT !.err = "KeyError"]
        ELSE IF ~Has(Get(covid, new_state), new_county)
        THEN compute_stats_loop(covid, geo, keys, i + 1, origin, request, counted)
        ELSE
        LET crec == Get(Get(covid, new_state), new_county)
        IN  IF ~Has(crec, request.stat)
            THEN [counted EXCEPT !.err = "KeyError"]
            ELSE compute_stats_loop(covid, geo, keys, i + 1, origin, request,
                   [counted EXCEPT
                      !.result.stat_total = @ + Get(crec, request.stat),
                      !.result.population = @ + grec.population,
                      !.result.counties = Append(@, <<new_county, new_state>>),
                      !.result.fips = Append(@, Get(crec, "fips"))])

\* compute_stats without the test of stat against self.stat_names
compute_stats_any_stat(covid, geo, names, request, stat) ==
    LET state  == request.state
        county == request.county
        empty  == [state |-> state, county |-> county, fips |-> <<>>,
                   counties |-> <<>>, stat |-> stat, population |-> 0,
                   stat_total |-> 0, cords |-> <<>>]
        fail   == [err |-> "ValueError", result |-> empty, ndist |-> 0]
    IN  IF ~Has(geo, state) THEN fail
        ELSE IF ~Has(Get(geo, state), county) THEN fail
        ELSE
        LET target == Get(Get(geo, state), county)
            origin == <<target.lat, target.lon>>
        IN  compute_stats_loop(covid, geo, Flatten(geo, 1), 1, origin,
                [distance |-> request.distance, stat |-> stat],
                [err |-> "", result |-> [empty EXCEPT !.cords = origin],
                 ndist |-> 0])

\* compute_stats(request, stat) on an object whose tables are covid and geo
\* and whose statistic names are names.  ndist counts the haversine calls.
compute_stats(covid, geo, names, request, stat) ==
    LET state  == request.state
        county == request.county
        empty  == [state |-> state, county |-> county, fips |-> <<>>,
                   counties |-> <<>>, stat |-> stat, population |-> 0,
                   stat_total |-> 0, cords |-> <<>>]
        fail   == [err |-> "ValueError", result |-> empty, ndist |-> 0]
    IN  IF \A i \in DOMAIN names : names[i] # stat THEN fail
        ELSE IF ~Has(geo, state) THEN fail
        ELSE IF ~Has(Get(geo, state), county) THEN fail
        ELSE
        LET target == Get(Get(geo, state), county)
            origin == <<target.lat, target.lon>>
        IN  compute_stats_loop(covid, geo, Flatten(geo, 1), 1, origin,
                [distance |-> request.distance, stat |-> stat],
                [err |-> "", result |-> [empty EXCEPT !.cords = origin],
                 ndist |-> 0])

(***************************************************************************)
(* State                                                                   *)
(***************************************************************************)
VARIABLES
    env,          \* command line and file system: paths' existence, files' lines
    pc,           \* position of the run in main / CovidData.__init__
    err,          \* the exception that stopped the run at pc, "" if none
    target_date,  \* main's target_date, then self.target_date; <<>> is None
    requests,     \* main's requests
    stat_names,   \* self.stat_names
    covid_dict,   \* CovidData.covid_dict (class attribute)
    geo_dict,     \* CovidData.geo_dict (class attribute)
    fpos,         \* lines read so far from the file being loaded
    linenum,      \* linenum of the load loop
    log,          \* warnings printed by the load loops
    results,      \* main's results
    ndist,        \* number of haversine calls made so far
    hav,          \* a pair of points and the haversine calls made on it
    first         \* an earlier CovidData object of the process, <<>> if none

vars == <<env, pc, err, target_date, requests, stat_names, covid_dict,
          geo_dict, fpos, linenum, log, results, ndist, hav, first>>

(***************************************************************************)
(* Bounds and input files                                                  *)
(***************************************************************************)
MaxCountyRows == 3

MaxGeoRows == 3

MaxRequestRows == 2

MaxBatchRows == 3

SeqsUpTo(S, n) == UNION {[1..k -> S] : k \in 0..n}

StatHeader1 == <<"date", "county", "state", "fips", "cases">>

StatHeader2 == <<"Date", "County", "State", "FIPS", "cases", "deaths">>

BadStatHeaders ==
    { <<"">>, <<"date", "county">>, <<"date", "county", "state">>,
      <<"county", "date", "state", "fips", "cases">>,
      <<"date", "county", "state", "zip", "cases">>,
      <<"fips">> }

StatRows ==
    { <<"2020-04-01", "Alameda", "California", "06001", "5">>,
      <<"2020-04-02", "Alameda", "California", "06002", "7">>,
      <<"2020-04-01", "Marin", "California", "06041", "">>,
      <<"2020-04-01", "Alameda", "California">>,
      <<"2020-04-02", "Nowhere", "Atlantis", "99999", "1">>,
      <<"2020-4-1", "Washoe", "Nevada", "32031", "3", "1">>,
      <<"2020-04-01", "Alameda", "California", "06003", "x">>,
      <<"2020-04-01", "Alameda", "California", "06004", "9", "">>,
      <<"2020-13-01", "Marin", "California", "06041", "9">> }

GeoHeader ==
    <<"zip", "primary_city", "state", "latitude", "longitude", "county",
      "type", "world_region", "country", "decommissioned",
      "estimated_population", "notes">>

GeoRow(state, county, lat, lon, population) ==
    <<"94501", "city", state, lat, lon, county, "STANDARD", "NA", "US", "0",
      population, "">>

GeoRows ==
    { GeoRow("CA", "Alameda", "38.0", "-122.0", "100"),
      GeoRow("CA", "Alameda", "38.0", "-117.0", "300"),
      GeoRow("CA", "Alameda", "33.0", "-117.0", "300"),
      GeoRow("CA", "", "43.0", "-122.0", "50"),
      GeoRow("PR", "", "40.0", "-75.0", "10"),
      Append(GeoRow("NV", "Washoe", "38.0", "-117.0", "200"), "a, b"),
      <<"94501", "city", "CA">>,
      GeoRow("NV", "Washoe", "N/A", "-117.0", "200") }

RequestHeader == <<"county", "state", "distance">>

DefaultCounties ==
    << StatHeader1,
       <<"2020-04-01", "Alameda", "California", "06001", "5">>,
       <<"2020-04-01", "Washoe", "Nevada", "32031", "3">> >>

DefaultGeocodes ==
    << GeoHeader,
       GeoRow("CA", "Alameda", "38.0", "-122.0", "100"),
       GeoRow("NV", "Washoe", "38.0", "-117.0", "200") >>

DefaultRequests == << RequestHeader, <<"Alameda", "CA", "300">> >>

DefaultEnv ==
    [input_exists |-> TRUE, input_file |-> DefaultRequests,
     counties_exists |-> TRUE, counties_file |-> DefaultCounties,
     geocodes_exists |-> TRUE, geocodes_file |-> DefaultGeocodes,
     target_date |-> "", statistic |-> "cases"]

\* statistics sources: every header with every row sequence
CountiesEnvs ==
    { [DefaultEnv EXCEPT !.counties_file = <<h>> \o rows, !.target_date = t] :
        h \in {StatHeader1, StatHeader2},
        rows \in SeqsUpTo(StatRows, MaxCountyRows),
        t \in {"", "2020-04-01"} }
    \cup
    { [DefaultEnv EXCEPT !.counties_file = <<h>> \o rows] :
        h \in BadStatHeaders,
        rows \in SeqsUpTo({<<"2020-04-01", "Alameda", "California", "06001", "5">>}, 1) }
    \cup
    { [DefaultEnv EXCEPT !.counties_file = <<>>] }

\* geocode sources
GeocodesEnvs ==
    { [DefaultEnv EXCEPT !.geocodes_file = <<GeoHeader>> \o rows] :
        rows \in SeqsUpTo(GeoRows, MaxGeoRows) }
    \cup
    { [DefaultEnv EXCEPT !.geocodes_file = <<>>] }

(***************************************************************************)
(* Operations                                                              *)
(***************************************************************************)
InitWith(envs) ==
    /\ env \in envs
    /\ pc = "start"
    /\ err = ""
    /\ target_date = <<>>
    /\ requests = <<>>
    /\ stat_names = <<>>
    /\ covid_dict = <<>>
    /\ geo_dict = <<>>
    /\ fpos = 0
    /\ linenum = 0
    /\ log = <<>>
    /\ results = <<>>
    /\ ndist = 0
    /\ hav = <<>>
    /\ first = <<>>

\* main, lines 134-144: convert the target date argument
ParseTargetDate ==
    /\ pc = "start"
    /\ err = ""
    /\ LET parsed == parse_date(env.target_date)
       IN  IF env.target_date = ""
           THEN pc' = "get_requests" /\ err' = err /\ target_date' = <<>>
           ELSE IF parsed.err # ""
           THEN pc' = pc /\ err' = "ValueError" /\ target_date' = target_date
           ELSE pc' = "get_requests" /\ err' = err /\ target_date' = parsed.date
    /\ UNCHANGED <<env, requests, stat_names, covid_dict, geo_dict, fpos,
                   linenum, log, results, ndist>>
    /\ UNCHANGED <<hav, first>>

\* main, line 147
GetRequests ==
    /\ pc = "get_requests"
    /\ err = ""
    /\ LET got == get_requests(env.input_exists, env.input_file)
       IN  IF got.err # ""
           THEN pc' = pc /\ err' = got.err /\ requests' = requests
           ELSE pc' = "construct" /\ err' = err /\ requests' = got.requests
    /\ UNCHANGED <<env, target_date, stat_names, covid_dict, geo_dict, fpos,
                   linenum, log, results, ndist>>
    /\ UNCHANGED <<hav, first>>

\* CovidData.__init__, lines 50-57
CovidDataInit ==
    /\ pc = "construct"
    /\ err = ""
    /\ stat_names' = <<>>
    /\ pc' = "counties_open"
    /\ UNCHANGED <<env, err, target_date, requests, covid_dict, geo_dict, fpos,
                   linenum, log, results, ndist>>
    /\ UNCHANGED <<hav, first>>

\* load_counties_data, lines 68-81: path check, header
LoadCountiesOpen ==
    /\ pc = "counties_open"
    /\ err = ""
    /\ LET file   == env.counties_file
           header == IF Len(file) = 0 THEN <<"">> ELSE file[1]
           valid  == validate_header(header)
       IN  IF ~env.counties_exists
           THEN /\ pc' = pc /\ err' = "RuntimeError"
                /\ UNCHANGED <<stat_names, fpos, linenum>>
           ELSE IF valid.err # ""
           THEN /\ pc' = pc /\ err' = valid.err
                /\ fpos' = 1 /\ linenum' = 1
                /\ UNCHANGED stat_names
           ELSE /\ pc' = "counties_rows" /\ err' = err
                /\ fpos' = 1 /\ linenum' = 1
                /\ stat_names' = valid.names
    /\ UNCHANGED <<env, target_date, requests, covid_dict, geo_dict, log,
                   results, ndist>>
    /\ UNCHANGED <<hav, first>>

\* a malformed line ends the loop (break in place of continue)
after_skip_break(eof) == "geocodes_open"

\* lines 92-96 and 83: continue, then while line: ends the loop only when
\* the line just read was the end of the file
after_skip(eof) == IF eof THEN "geocodes_open" ELSE "counties_rows"

\* load_counties_data, lines 83-166: one pass of the while loop
LoadCountiesLine ==
    /\ pc = "counties_rows"
    /\ err = ""
    /\ LET file      == env.counties_file
           eof       == fpos >= Len(file)
           line_data == IF eof THEN <<"">> ELSE file[fpos + 1]
           current   == parse_date(line_data[1])
           stored    == store_counties_row(covid_dict, stat_names, line_data)
       IN  /\ fpos' = fpos + 1
           /\ IF Len(line_data) # num_fixed_types + Len(stat_names)
              THEN /\ log' = Append(log, <<"incomplete", linenum>>)
                   /\ linenum' = linenum + 1
                   /\ pc' = after_skip(eof)
                   /\ UNCHANGED <<err, covid_dict>>
              ELSE IF target_date # <<>> /\ current.err # ""
              THEN /\ pc' = pc /\ err' = current.err
                   /\ UNCHANGED <<log, linenum, covid_dict>>
              ELSE IF target_date # <<>> /\ current.date # target_date
              THEN /\ linenum' = linenum + 1
                   /\ UNCHANGED <<pc, err, log, covid_dict>>
              ELSE /\ covid_dict' = stored.covid
                   /\ log' = IF stored.collision
                             THEN Append(log, <<"collision", line_data[2],
                                    Get(us_state_abbrev, line_data[3]),
                                    line_data[1]>>)
                             ELSE log
                   /\ IF stored.err # ""
                      THEN pc' = pc /\ err' = stored.err
                           /\ linenum' = linenum
                      ELSE pc' = pc /\ err' = err /\ linenum' = linenum + 1
    /\ UNCHANGED <<env, target_date, requests, stat_names, geo_dict, results,
                   ndist>>
    /\ UNCHANGED <<hav, first>>

\* load_geocodes_data, lines 173-185: path check, open, header
LoadGeocodesOpen ==
    /\ pc = "geocodes_open"
    /\ err = ""
    /\ IF ~env.counties_exists
       THEN pc' = pc /\ err' = "RuntimeError" /\ UNCHANGED <<fpos, linenum>>
       ELSE IF ~env.geocodes_exists
       THEN pc' = pc /\ err' = "FileNotFoundError"
            /\ UNCHANGED <<fpos, linenum>>
       ELSE /\ pc' = IF Len(env.geocodes_file) = 0 THEN "serve"
                                                    ELSE "geocodes_rows"
            /\ err' = err /\ fpos' = 1 /\ linenum' = 1
    /\ UNCHANGED <<env, target_date, requests, stat_names, covid_dict,
                   geo_dict, log, results, ndist>>
    /\ UNCHANGED <<hav, first>>

\* load_geocodes_data, lines 188-241: one pass of the while loop
LoadGeocodesLine ==
    /\ pc = "geocodes_rows"
    /\ err = ""
    /\ LET file      == env.geocodes_file
           eof       == fpos >= Len(file)
           line_data == IF eof THEN <<"">> ELSE file[fpos + 1]
           stored    == store_geocodes_row(geo_dict, line_data)
       IN  /\ fpos' = fpos + 1
           /\ IF Len(line_data) < num_geo_types
              THEN /\ log' = Append(log, <<"incomplete", linenum>>)
                   /\ linenum' = linenum + 1
                   /\ pc' = IF eof THEN "serve" ELSE pc
                   /\ UNCHANGED <<err, geo_dict>>
              ELSE IF stored.err # ""
              THEN /\ pc' = pc /\ err' = stored.err
                   /\ UNCHANGED <<log, linenum, geo_dict>>
              ELSE /\ geo_dict' = stored.geo
                   /\ linenum' = linenum + 1
                   /\ UNCHANGED <<pc, err, log>>
    /\ UNCHANGED <<env, target_date, requests, stat_names, covid_dict,
                   results, ndist>>
    /\ UNCHANGED <<hav, first>>

\* ComputeStats with the totals of the previous result carried over
ComputeStatsCarry ==
    /\ pc = "serve"
    /\ err = ""
    /\ Len(results) < Len(requests)
    /\ LET out  == compute_stats(covid_dict, geo_dict, stat_names,
                                 requests[Len(results) + 1], env.statistic)
           prev == IF results = <<>> THEN 0
                   ELSE results[Len(results)].stat_total
       IN  /\ ndist' = ndist + out.ndist
           /\ IF out.err # ""
              THEN pc' = pc /\ err' = out.err /\ results' = results
              ELSE pc' = pc /\ err' = err
                   /\ results' = Append(results,
                         [out.result EXCEPT !.stat_total = @ + prev])
    /\ UNCHANGED <<env, target_date, requests, stat_names, covid_dict,
                   geo_dict, fpos, linenum, log>>
    /\ UNCHANGED <<hav, first>>

\* main, lines 156-157: one pass of the for loop
ComputeStats ==
    /\ pc = "serve"
    /\ err = ""
    /\ Len(results) < Len(requests)
    /\ LET out == compute_stats(covid_dict, geo_dict, stat_names,
                                requests[Len(results) + 1], env.statistic)
       IN  /\ ndist' = ndist + out.ndist
           /\ IF out.err # ""
              THEN pc' = pc /\ err' = out.err /\ results' = results
              ELSE pc' = pc /\ err' = err /\ results' = Append(results, out.result)
    /\ UNCHANGED <<env, target_date, requests, stat_names, covid_dict,
                   geo_dict, fpos, linenum, log>>
    /\ UNCHANGED <<hav, first>>

\* main, line 160: hand the results to plot_results
PlotResults ==
    /\ pc = "serve"
    /\ err = ""
    /\ Len(results) = Len(requests)
    /\ pc' = "done"
    /\ UNCHANGED <<env, err, target_date, requests, stat_names, covid_dict,
                   geo_dict, fpos, linenum, log, results, ndist>>
    /\ UNCHANGED <<hav, first>>

Next ==
    \/ ParseTargetDate
    \/ GetRequests
    \/ CovidDataInit
    \/ LoadCountiesOpen
    \/ LoadCountiesLine
    \/ LoadGeocodesOpen
    \/ LoadGeocodesLine
    \/ ComputeStats
    \/ PlotResults

InitCounties == InitWith(CountiesEnvs)

SpecCounties == InitCounties /\ [][Next]_vars

InitGeocodes == InitWith(GeocodesEnvs)

SpecGeocodes == InitGeocodes /\ [][Next]_vars

\* datasets for aggregation: Marin or all of Nevada may lack statistics, and
\* the statistics may hold a row without a county name
ServeCounties ==
    { <<StatHeader1,
        <<"2020-04-01", "Alameda", "California", "06001", "5">>,
        <<"2020-04-01", "Marin", "California", "06041", "7">>,
        <<"2020-04-01", "Washoe", "Nevada", "32031", "3">> >>,
      <<StatHeader1,
        <<"2020-04-01", "Alameda", "California", "06001", "5">>,
        <<"2020-04-01", "Washoe", "Nevada", "32031", "3">> >>,
      <<StatHeader1,
        <<"2020-04-01", "Alameda", "California", "06001", "5">>,
        <<"2020-04-01", "Marin", "California", "06041", "7">> >>,
      <<StatHeader1,
        <<"2020-04-01", "Alameda", "California", "06001", "5">>,
        <<"2020-04-01", "", "California", "06000", "9">>,
        <<"2020-04-01", "Marin", "California", "06041", "7">>,
        <<"2020-04-01", "Washoe", "Nevada", "32031", "3">> >> }

ServeGeocodes ==
    << GeoHeader,
       GeoRow("CA", "Alameda", "38.0", "-122.0", "100"),
       GeoRow("CA", "", "38.0", "-122.0", "10"),
       GeoRow("CA", "Marin", "43.0", "-122.0", "50"),
       GeoRow("NV", "Washoe", "38.0", "-117.0", "200"),
       GeoRow("CA", "Alameda", "38.0", "-122.0", "50") >>

ServeRequestRows ==
    { <<"Alameda", "CA", "0">>, <<"Alameda", "CA", "300">>,
      <<"Alameda", "CA", "400">>, <<"Marin", "CA", "300">>,
      <<"Marin", "CA", "400">>, <<"Notreal", "CA", "300">>,
      <<"Alameda", "ZZ", "300">>, <<"", "CA", "300">>,
      <<"Washoe", "NV", "0">> }

ServeEnvs ==
    { [DefaultEnv EXCEPT !.counties_file = c, !.geocodes_file = ServeGeocodes,
                         !.input_file = <<RequestHeader>> \o rows,
                         !.statistic = st] :
        c \in ServeCounties,
        rows \in SeqsUpTo(ServeRequestRows, MaxRequestRows),
        st \in {"cases", "recovered"} }

\* request batches, missing paths and target date arguments
BatchRows ==
    { <<"Alameda", "CA", "300">>, <<"Washoe", "NV", "1000">>,
      <<"Alameda", "CA", "1000.5">>, <<"Washoe", "NV", "2000">>,
      <<"">>, <<"Alameda", "CA">>, <<"Alameda", "CA", "far">> }

MainEnvs ==
    { [DefaultEnv EXCEPT !.input_file = <<RequestHeader>> \o rows] :
        rows \in SeqsUpTo(BatchRows, MaxBatchRows) }
    \cup
    { [DefaultEnv EXCEPT !.input_file = <<>>] }
    \cup
    { [DefaultEnv EXCEPT !.input_exists = i, !.counties_exists = c,
                         !.geocodes_exists = g] :
        i \in BOOLEAN, c \in BOOLEAN, g \in BOOLEAN }
    \cup
    { [DefaultEnv EXCEPT !.target_date = t] :
        t \in {"2020-04-01", "2020-4-1", "2020-13-01", "today"} }

InitServe == InitWith(ServeEnvs)

SpecServe == InitServe /\ [][Next]_vars

Init == InitWith(MainEnvs)

Spec == Init /\ [][Next]_vars

(***************************************************************************)
(* haversine on its own: a pair of points of a grid, then the calls        *)
(* haversine(a, b), haversine(b, a), haversine(a, a)                       *)
(***************************************************************************)
MaxGridSteps == 2

\* grid spacing in 1/100 degree
LatStep == 1500

LonStep == 2500

GridPoints ==
    { <<LatStep * i, LonStep * j>> :
        i \in -MaxGridSteps..MaxGridSteps, j \in -MaxGridSteps..MaxGridSteps }

InitHaversine ==
    /\ env = DefaultEnv
    /\ pc = "start"
    /\ err = ""
    /\ target_date = <<>>
    /\ requests = <<>>
    /\ stat_names = <<>>
    /\ covid_dict = <<>>
    /\ geo_dict = <<>>
    /\ fpos = 0
    /\ linenum = 0
    /\ log = <<>>
    /\ results = <<>>
    /\ ndist = 0
    /\ hav \in { [origin |-> a, destination |-> b, calls |-> <<>>] :
                   a \in GridPoints, b \in GridPoints }
    /\ first = <<>>

HaversineCall ==
    /\ Len(hav.calls) < 3
    /\ LET n == Len(hav.calls)
           o == IF n = 1 THEN hav.destination ELSE hav.origin
           d == IF n = 0 THEN hav.destination ELSE hav.origin
       IN  hav' = [hav EXCEPT !.calls =
                      Append(@, [origin |-> o, destination |-> d,
                                 miles |-> haversine(o, d)])]
    /\ UNCHANGED <<env, pc, err, target_date, requests, stat_names, covid_dict,
                   geo_dict, fpos, linenum, log, results, ndist, first>>

NextHaversine == HaversineCall

SpecHaversine == InitHaversine /\ [][NextHaversine]_vars

(***************************************************************************)
(* Two CovidData objects in one process: after the first object has served *)
(* its requests a second one is constructed, and the first then serves the *)
(* same requests again                                                     *)
(***************************************************************************)
TwoRequestRows ==
    { <<"Alameda", "CA", "0">>, <<"Alameda", "CA", "300">>,
      <<"Washoe", "NV", "0">> }

TwoEnvs ==
    { [DefaultEnv EXCEPT !.input_file = <<RequestHeader>> \o rows] :
        rows \in SeqsUpTo(TwoRequestRows, MaxRequestRows) }

\* the sources of the second object: those of the first, or others
SecondSources ==
    { [counties_file |-> DefaultCounties, geocodes_file |-> DefaultGeocodes],
      [counties_file |->
          << StatHeader1,
             <<"2020-04-02", "Alameda", "California", "06001", "7">>,
             <<"2020-04-02", "Marin", "California", "06041", "7">> >>,
       geocodes_file |->
          << GeoHeader,
             GeoRow("CA", "Marin", "38.0", "-122.0", "50"),
             GeoRow("NV", "Washoe", "43.0", "-122.0", "300") >>] }

InitTwo == InitWith(TwoEnvs)

\* CovidData(counties_path, geocodes_path, target_date) called a second
\* time: the first object keeps its stat_names, the class attributes
\* covid_dict and geo_dict are the ones the new object loads into
ConstructSecond ==
    /\ pc = "serve"
    /\ err = ""
    /\ Len(results) = Len(requests)
    /\ first = <<>>
    /\ \E src \in SecondSources :
          env' = [env EXCEPT !.counties_file = src.counties_file,
                             !.geocodes_file = src.geocodes_file]
    /\ first' = [stat_names |-> stat_names, covid_dict |-> covid_dict,
                 geo_dict |-> geo_dict, results |-> <<>>]
    /\ pc' = "construct"
    /\ UNCHANGED <<err, target_date, requests, stat_names, covid_dict,
                   geo_dict, fpos, linenum, log, results, ndist, hav>>

\* compute_stats called on the first object once the second is constructed
ComputeStatsFirst ==
    /\ pc = "serve"
    /\ err = ""
    /\ first # <<>>
    /\ Len(first.results) < Len(requests)
    /\ LET out == compute_stats(covid_dict, geo_dict, first.stat_names,
                                requests[Len(first.results) + 1],
                                env.statistic)
       IN  /\ ndist' = ndist + out.ndist
           /\ IF out.err # ""
              THEN err' = out.err /\ first' = first
              ELSE err' = err
                   /\ first' = [first EXCEPT
                                   !.results = Append(@, out.result)]
    /\ UNCHANGED <<env, pc, target_date, requests, stat_names, covid_dict,
                   geo_dict, fpos, linenum, log, results, hav>>

NextTwo ==
    \/ ParseTargetDate
    \/ GetRequests
    \/ CovidDataInit
    \/ LoadCountiesOpen
    \/ LoadCountiesLine
    \/ LoadGeocodesOpen
    \/ LoadGeocodesLine
    \/ ComputeStats
    \/ PlotResults
    \/ ConstructSecond
    \/ ComputeStatsFirst

SpecTwo == InitTwo /\ [][NextTwo]_vars

(***************************************************************************)
(* Aggregation (SpecServe)                                                 *)
(***************************************************************************)
\* the request the next pass of main's loop serves
NextRequest == requests[Len(results) + 1]

ServingNext == pc = "serve" /\ err = "" /\ Len(results) < Len(requests)

\* the request names a state or county the GeoTable lacks, or the statistic
\* is not a column of the statistics header
UnknownTarget(r) ==
    \/ ~Has(geo_dict, r.state)
    \/ ~Has(Get(geo_dict, r.state), r.county)
    \/ \A i \in DOMAIN stat_names : stat_names[i] # env.statistic

\* C1: compute_stats raises the lookup error (ValueError) and returns no
\* result when the state is not in the GeoTable, the county is not under that
\* state, or the statistic was not discovered from the header.
C1_LookupError ==
    [][ServingNext /\ UnknownTarget(NextRequest)
         => err' = "ValueError" /\ results' = results]_vars

\* an aggregation for a made-up county of a known state has failed
C1_Witness ==
    /\ pc = "serve" /\ err = "ValueError"
    /\ Has(geo_dict, NextRequest.state)
    /\ ~Has(Get(geo_dict, NextRequest.state), NextRequest.county)
    /\ \E i \in DOMAIN stat_names : stat_names[i] = env.statistic

\* the <<county, state>> pairs of the GeoTable
GeoPairs == UNION {{<<c, s>> : c \in Keys(Get(geo_dict, s))} : s \in Keys(geo_dict)}

GeoOf(p) == Get(Get(geo_dict, p[2]), p[1])

HasStatistics(p) == Has(covid_dict, p[2]) /\ Has(Get(covid_dict, p[2]), p[1])

StatOf(p) == Get(Get(covid_dict, p[2]), p[1])

\* the region of a request: named GeoTable entries within the radius of the
\* target's point that have a StatisticRecord
Region(r) ==
    LET t == GeoOf(<<r.county, r.state>>)
    IN  {p \in GeoPairs :
            /\ p[1] # ""
            /\ haversine(<<t.lat, t.lon>>, <<GeoOf(p).lat, GeoOf(p).lon>>)
                 <= r.distance
            /\ HasStatistics(p)}

RECURSIVE SumSeq(_)
SumSeq(q) == IF q = <<>> THEN 0 ELSE Head(q) + SumSeq(Tail(q))

\* C2: a returned result lists exactly the region's pairs, each once, the
\* jurisdiction identifier of each pair at the same index, and the sums of
\* their populations and of their values of the statistic.
C2_RegionExact ==
    \A i \in 1..Len(results) :
        LET res == results[i]
            n   == Len(res.counties)
        IN  /\ {res.counties[k] : k \in 1..n} = Region(requests[i])
            /\ n = Cardinality(Region(requests[i]))
            /\ Len(res.fips) = n
            /\ \A k \in 1..n : res.fips[k] = Get(StatOf(res.counties[k]), "fips")
            /\ res.population
                 = SumSeq([k \in 1..n |-> GeoOf(res.counties[k]).population])
            /\ res.stat_total
                 = SumSeq([k \in 1..n |-> Get(StatOf(res.counties[k]), env.statistic)])

\* a result of two counties, with a county without statistics and an unnamed
\* county in range, and a county out of range
C2_Witness ==
    \E i \in 1..Len(results) :
        /\ Len(results[i].counties) = 2
        /\ results[i].population = 350
        /\ \E p \in GeoPairs : p[1] # "" /\ ~HasStatistics(p)
        /\ \E p \in GeoPairs : p[1] = ""

\* C3: GeoTable entries without a StatisticRecord never make an aggregation
\* fail: an aggregation fails only for an unknown target or statistic.
C3_MissingStatisticsNeverFail ==
    pc = "serve" /\ err # "" => UnknownTarget(NextRequest)

Min(a, b) == IF a <= b THEN a ELSE b

\* the lines of the geocode source that the load loop has read
GeoLinesRead ==
    IF pc = "geocodes_rows" THEN 2..Min(fpos, Len(env.geocodes_file))
    ELSE IF pc \in {"serve", "done"} THEN 2..Len(env.geocodes_file)
    ELSE {}

\* a sub-entry row: enough fields, numeric latitude, longitude, population
WellFormedGeo(line) ==
    /\ Len(line) >= num_geo_types
    /\ Has(FloatLiterals, line[4])
    /\ Has(FloatLiterals, line[5])
    /\ Has(IntLiterals, line[11])

\* the sub-entries read so far for the pair p = <<county, state>>
SubEntries(p) ==
    {i \in GeoLinesRead :
        /\ WellFormedGeo(env.geocodes_file[i])
        /\ env.geocodes_file[i][6] = p[1]
        /\ env.geocodes_file[i][3] = p[2]}

SubPopulation(i) == Get(IntLiterals, env.geocodes_file[i][11])

RECURSIVE SumPopulation(_)
SumPopulation(I) ==
    IF I = {} THEN 0
    ELSE LET i == CHOOSE j \in I : TRUE
         IN  SubPopulation(i) + SumPopulation(I \ {i})

\* the earliest of the sub-entries of largest population
LargestSubEntry(I) ==
    CHOOSE i \in I :
        \A j \in I : \/ SubPopulation(j) < SubPopulation(i)
                     \/ (SubPopulation(j) = SubPopulation(i) /\ i <= j)

\* C4: each GeoRecord's population is the sum of the populations of the
\* sub-entries read for its key, and its point is that of the earliest
\* sub-entry of largest population; the records are exactly the keys read.
C4_SumAndLargest ==
    /\ GeoPairs = {<<env.geocodes_file[i][6], env.geocodes_file[i][3]>> :
                     i \in {j \in GeoLinesRead : WellFormedGeo(env.geocodes_file[j])}}
    /\ \A p \in GeoPairs :
          LET I    == SubEntries(p)
              best == env.geocodes_file[LargestSubEntry(I)]
          IN  /\ GeoOf(p).population = SumPopulation(I)
              /\ GeoOf(p).lat = Get(FloatLiterals, best[4])
              /\ GeoOf(p).lon = Get(FloatLiterals, best[5])

\* Alameda read as sub-entries of 100, then 300, then 300 at another point
C4_Witness ==
    /\ pc = "serve"
    /\ Cardinality(SubEntries(<<"Alameda", "CA">>)) = 3
    /\ SubPopulation(2) = 100
    /\ GeoOf(<<"Alameda", "CA">>).population = 700
    /\ GeoOf(<<"Alameda", "CA">>).lat = 3800
    /\ GeoOf(<<"Alameda", "CA">>).lon = -11700

\* C5: reading a sub-entry row with an empty county name leaves the GeoTable
\* as it was.
C5_EmptyCountyIgnored ==
    [][(/\ pc = "geocodes_rows" /\ err = ""
        /\ fpos < Len(env.geocodes_file)
        /\ WellFormedGeo(env.geocodes_file[fpos + 1])
        /\ env.geocodes_file[fpos + 1][6] = "")
       => geo_dict' = geo_dict]_vars

(***************************************************************************)
(* Statistics ingestion (SpecCounties)                                     *)
(***************************************************************************)
\* the lines of the statistics source that the load loop has read
CountyLinesRead ==
    IF pc = "counties_rows" THEN 2..Min(fpos, Len(env.counties_file))
    ELSE IF pc \in {"geocodes_open", "geocodes_rows", "serve", "done"}
    THEN 2..Len(env.counties_file)
    ELSE {}

\* statistics ingestion was stopped by an exception
CountiesAborted == pc \in {"counties_open", "counties_rows"} /\ err # ""

Malformed(line) == Len(line) # num_fixed_types + Len(stat_names)

\* a row that is recorded: right field count, the target date if one is
\* set, a known state name and integer or empty statistic fields
Qualifies(line) ==
    /\ ~Malformed(line)
    /\ \/ target_date = <<>>
       \/ parse_date(line[1]) = [err |-> "", date |-> target_date]
    /\ Has(us_state_abbrev, line[3])
    /\ \A k \in 1..Len(stat_names) :
          line[num_fixed_types + k] = "" \/ Has(IntLiterals, line[num_fixed_types + k])

\* the <<county, state>> key of a row
KeyOf(line) == <<line[2], Get(us_state_abbrev, line[3])>>

\* the qualifying lines read so far for the pair p
QualifyingFor(p) ==
    {i \in CountyLinesRead :
        Qualifies(env.counties_file[i]) /\ KeyOf(env.counties_file[i]) = p}

Last(I) == CHOOSE i \in I : \A j \in I : j <= i

\* the record rec holds the identifier and every statistic of the row line
Carries(rec, line) ==
    /\ Keys(rec) = {"fips"} \cup {stat_names[k] : k \in 1..Len(stat_names)}
    /\ Get(rec, "fips") = line[4]
    /\ \A k \in 1..Len(stat_names) :
          Get(rec, stat_names[k])
            = IF line[num_fixed_types + k] = "" THEN 0
              ELSE Get(IntLiterals, line[num_fixed_types + k])

\* the <<county, state>> pairs of the StatisticsTable
StatPairs ==
    UNION {{<<c, s>> : c \in Keys(Get(covid_dict, s))} : s \in Keys(covid_dict)}

\* C6: a row of the wrong field count is skipped, the table and the run
\* untouched, and the rows after it are still recorded: every qualifying row
\* read after a malformed one has its record in the table.
C6_MalformedSkipped ==
    /\ [][(/\ pc = "counties_rows" /\ err = ""
           /\ fpos < Len(env.counties_file)
           /\ Malformed(env.counties_file[fpos + 1]))
          => /\ covid_dict' = covid_dict
             /\ err' = ""
             /\ pc' = "counties_rows"
             /\ fpos' = fpos + 1]_vars
    /\ [](~CountiesAborted =>
            \A i, j \in CountyLinesRead :
               (/\ i < j
                /\ Malformed(env.counties_file[i])
                /\ Qualifies(env.counties_file[j]))
               => LET p == KeyOf(env.counties_file[j])
                  IN  /\ HasStatistics(p)
                      /\ Carries(StatOf(p), env.counties_file[Last(QualifyingFor(p))]))

\* ingestion completed over a source with a short row before a valid one
C6_Witness ==
    /\ pc = "geocodes_open" /\ err = ""
    /\ Len(env.counties_file) >= 3
    /\ Len(env.counties_file[2]) = 3
    /\ Qualifies(env.counties_file[3])
    /\ HasStatistics(KeyOf(env.counties_file[3]))

UniqueKeys(d) == \A i, j \in DOMAIN d : d[i][1] = d[j][1] => i = j

CollisionWarnings == {i \in DOMAIN log : log[i][1] = "collision"}

QualifyingRead == {i \in CountyLinesRead : Qualifies(env.counties_file[i])}

\* C7: one record per (state, county) at all times; while ingestion runs and
\* after it completes, the records are those of the keys read, each carries
\* the identifier and every statistic of the last qualifying row read for
\* its key, and one collision warning was printed per row after the first.
C7_LastRowWins ==
    /\ UniqueKeys(covid_dict)
    /\ \A i \in DOMAIN covid_dict : UniqueKeys(covid_dict[i][2])
    /\ ~CountiesAborted /\ CountyLinesRead # {} =>
         /\ StatPairs = {KeyOf(env.counties_file[i]) : i \in QualifyingRead}
         /\ \A p \in StatPairs :
               Carries(StatOf(p), env.counties_file[Last(QualifyingFor(p))])
         /\ Cardinality(CollisionWarnings)
              = Cardinality(QualifyingRead) - Cardinality(StatPairs)

\* Alameda loaded from three rows, the last with another identifier
C7_Witness ==
    /\ pc = "geocodes_open" /\ err = ""
    /\ Cardinality(QualifyingFor(<<"Alameda", "CA">>)) = 3
    /\ env.counties_file[2][4] = "06001"
    /\ Get(StatOf(<<"Alameda", "CA">>), "fips") = "06002"
    /\ Get(StatOf(<<"Alameda", "CA">>), "cases") = 7
    /\ Cardinality(CollisionWarnings) = 2

StatisticsHeader ==
    IF env.counties_file = <<>> THEN <<"">> ELSE env.counties_file[1]

\* the first four columns are not date, county, state, fips
SchemaMismatch ==
    ~(/\ Len(StatisticsHeader) >= num_fixed_types
      /\ \A i \in 1..num_fixed_types :
            lower(StatisticsHeader[i]) = counties_data_types[i])

\* C8: a header that does not match the schema fails ingestion with the
\* schema error (ValueError) at the header, no row read, the table unchanged.
C8_SchemaError ==
    (/\ SchemaMismatch
     /\ pc \notin {"start", "get_requests", "construct"}
     /\ ~(pc = "counties_open" /\ err = ""))
    => /\ pc = "counties_open"
       /\ err = "ValueError"
       /\ covid_dict = <<>>
       /\ fpos <= 1

(***************************************************************************)
(* The run of main (Spec)                                                  *)
(***************************************************************************)
\* a request row whose radius parses to more than 1000 miles
OverLimitRow(line) ==
    /\ Len(line) = 3
    /\ Has(FloatLiterals, line[3])
    /\ Get(FloatLiterals, line[3]) > MaxRadius

BatchHasOverLimit ==
    \E i \in 2..Len(env.input_file) : OverLimitRow(env.input_file[i])

\* C9: when the request batch holds a row with a radius above 1000 miles, no
\* distance is computed and no aggregation is served at any point of the run.
C9_RejectedBeforeDistance ==
    BatchHasOverLimit => ndist = 0 /\ results = <<>>

(***************************************************************************)
(* Self-inclusion (SpecServe)                                              *)
(***************************************************************************)
\* C11: a returned result for a radius >= 0 whose target has both a GeoRecord
\* and a StatisticRecord lists the target's own pair.
C11_SelfIncluded ==
    \A i \in 1..Len(results) :
        LET t == <<requests[i].county, requests[i].state>>
        IN  requests[i].distance >= 0 /\ HasStatistics(t)
            => \E k \in 1..Len(results[i].counties) : results[i].counties[k] = t

(***************************************************************************)
(* Date filter (SpecCounties)                                              *)
(***************************************************************************)
\* the date field of the row is the target date
DateIsTarget(line) == parse_date(line[1]) = [err |-> "", date |-> target_date]

\* C12: with a target date, every record of the table comes from a row of
\* that date, and a row of the right field count whose date field is not the
\* target date is skipped: no error, the table unchanged, the loop goes on.
C12_DateFilter ==
    /\ [](target_date # <<>> /\ ~CountiesAborted =>
            \A p \in StatPairs :
               \E i \in CountyLinesRead :
                  /\ Qualifies(env.counties_file[i])
                  /\ DateIsTarget(env.counties_file[i])
                  /\ Carries(StatOf(p), env.counties_file[i]))
    /\ [][(/\ pc = "counties_rows" /\ err = ""
           /\ target_date # <<>>
           /\ fpos < Len(env.counties_file)
           /\ ~Malformed(env.counties_file[fpos + 1])
           /\ ~DateIsTarget(env.counties_file[fpos + 1]))
          => /\ covid_dict' = covid_dict
             /\ err' = ""
             /\ pc' = "counties_rows"]_vars

(***************************************************************************)
(* Missing source paths (Spec)                                             *)
(***************************************************************************)
\* C13: with a missing statistics or geocode path no request is ever served;
\* when only the geocode path is missing, construction stops with the error
\* of the path validation (not of the read) and both tables are as they
\* were before construction, that is empty.
C13_MissingPathFails ==
    /\ (~env.counties_exists \/ ~env.geocodes_exists)
          => pc \notin {"serve", "done"} /\ results = <<>>
    /\ (/\ env.counties_exists /\ ~env.geocodes_exists
        /\ pc = "geocodes_open" /\ err # "")
          => err = "RuntimeError" /\ covid_dict = <<>> /\ geo_dict = <<>>

(***************************************************************************)
(* Request batch parsing (Spec)                                            *)
(***************************************************************************)
\* the rows of the request batch after its header
RequestRows ==
    IF Len(env.input_file) = 0 THEN <<>> ELSE Tail(env.input_file)

\* three fields, the third a float of at most 1000 miles
RequestRowOK(row) ==
    /\ Len(row) = 3
    /\ Has(FloatLiterals, row[3])
    /\ Get(FloatLiterals, row[3]) <= MaxRadius

RequestOf(row) ==
    [state |-> row[2], county |-> row[1], distance |-> Get(FloatLiterals, row[3])]

\* get_requests has returned or raised
GetRequestsDone == pc # "start" /\ ~(pc = "get_requests" /\ err = "")

\* C14: once get_requests has run on an existing batch, it has raised if
\* some row after the header is not county,state,distance with a float
\* distance <= 1000, and otherwise it has returned one request per row after
\* the header, in file order.
C14_NoRowDropped ==
    (env.input_exists /\ GetRequestsDone) =>
        IF \E i \in 1..Len(RequestRows) : ~RequestRowOK(RequestRows[i])
        THEN pc = "get_requests" /\ err = "RuntimeError"
        ELSE /\ ~(pc = "get_requests" /\ err # "")
             /\ requests = [i \in 1..Len(RequestRows) |-> RequestOf(RequestRows[i])]

(***************************************************************************)
(* Distance function (SpecHaversine)                                       *)
(***************************************************************************)
\* C15: every haversine call from a point to itself returned 0, and two
\* calls on the same pair of points in opposite directions returned the same
\* distance.
C15_ZeroAndSymmetric ==
    \A i \in 1..Len(hav.calls) : \A j \in 1..Len(hav.calls) :
        /\ hav.calls[i].origin = hav.calls[i].destination
              => hav.calls[i].miles = 0
        /\ (/\ hav.calls[i].origin = hav.calls[j].destination
            /\ hav.calls[i].destination = hav.calls[j].origin)
              => hav.calls[i].miles = hav.calls[j].miles

\* all three calls made on points differing in latitude and longitude, at
\* different distances from the equator
C15_Witness ==
    /\ Len(hav.calls) = 3
    /\ hav.origin[1] # hav.destination[1]
    /\ hav.origin[1] # -hav.destination[1]
    /\ hav.origin[2] # hav.destination[2]
    /\ hav.calls[1].miles > 0

(***************************************************************************)
(* Tables after construction (SpecTwo)                                     *)
(***************************************************************************)
\* C16: once a second object is being or has been constructed, the
\* StatisticsTable and the GeoTable are still those the first object had
\* when its construction finished, and every result the first object
\* returns afterwards equals the result it returned for that request before.
C16_TablesFrozen ==
    first # <<>> =>
        /\ covid_dict = first.covid_dict
        /\ geo_dict = first.geo_dict
        /\ \A i \in 1..Len(first.results) : first.results[i] = results[i]

====
